---- MODULE Spec2Model ----
(***************************************************************************)
(* The project.pbxproj editing scripts of virtual-library/ios:             *)
(*   fix-xcode-project.py, fix-groups.py, add-create-library.py and        *)
(*   add-entitlements.py.                                                  *)
(*                                                                         *)
(* The manifest (project.pbxproj) is a sequence of lines.  Each line is a  *)
(* record [k, id, name, ref, path]: k is the textual shape of the line,    *)
(* the other fields are the parts of the text the scripts' patterns read   *)
(* or their f-strings write.  Indentation and the lines no pattern reads   *)
(* (isa = ...;  };  /* End ... section */) are left out.                   *)
(* Identifiers (24 hex digits in the file) are numbers.                    *)
(***************************************************************************)
EXTENDS Integers, Sequences, FiniteSets, TLC

VARIABLES disk, content, pc, todo, original, reads, writes, report, failed

vars == <<disk, content, pc, todo, original, reads, writes, report, failed>>

(***************************************************************************)
(* Bounds of the model.                                                    *)
(***************************************************************************)
\* the number of entries of its files list a run goes through
MaxRegs == 2
\* the largest value uuid4 returns
MaxUuid == 7
\* the number of lines a write that raises has put in the file, at most
MaxKept == 1

(***************************************************************************)
(* Identifiers the scripts hard-code.  D022A..., 3DADE..., 4BBAC... and    *)
(* 8B095... have the version and variant digits of a uuid4: they are       *)
(* values of generate_xcode_id.  The others (...2B3C4D5E6F7A8B9C0D1E3F,    *)
(* BE1E9...) are not, and lie outside its range.                           *)
(***************************************************************************)
\* 6B2B3C4D5E6F7A8B9C0D1E3F
AppGroupId == 106
\* 7B2B3C4D5E6F7A8B9C0D1E3F
ProductsGroupId == 107
\* 8B2B3C4D5E6F7A8B9C0D1E3F
ViewsGroupId == 108
\* 0C2B3C4D5E6F7A8B9C0D1E3F
ViewModelsGroupId == 110
\* 1A2B3C4D5E6F7A8B9C0D1E3F
AppSwiftId == 111
\* 3B2B3C4D5E6F7A8B9C0D1E3F
AppProductId == 113
\* 5A2B3C4D5E6F7A8B9C0D1E3F
BookResultViewId == 115
\* 8A2B3C4D5E6F7A8B9C0D1E3F
ScanCoverViewModelId == 118
\* 3DADE27A121746F885AA2B10
LibrariesListViewId == 1
\* D022A12D157A4F49B20F2DC7
LoginViewId == 0
\* 4BBAC38D7436436692BAA2E9
LibrariesListViewModelId == 2
\* 1C2B3C4D5E6F7A8B9C0D1E3F
ServicesGroupId == 122
\* BE1E9ED82F2061F600B6EE93
LibraryId == 123
\* 8B0951B47A2B405AB0E0ED13
AuthenticationServiceId == 3
\* the id of a line that holds none
NoId == 0 - 1

(***************************************************************************)
(* Lines.                                                                  *)
(***************************************************************************)
Line(k, id, name, ref, path) ==
    [k |-> k, id |-> id, name |-> name, ref |-> ref, path |-> path]

Marker(k) == Line(k, NoId, "", NoId, "")

\* "/* Begin PBXBuildFile section */"
BeginBuildFile == Marker("BeginBuildFile")
\* "/* Begin PBXFileReference section */"
BeginFileRef == Marker("BeginFileRef")
\* "/* Begin PBXSourcesBuildPhase section */"
BeginSources == Marker("BeginSources")
\* "files = ("
FilesOpen == Marker("FilesOpen")
\* "children = ("
ChildrenOpen == Marker("ChildrenOpen")
\* ");"
ListClose == Marker("ListClose")
\* "buildSettings = {"
BuildSettingsOpen == Marker("BuildSettingsOpen")
\* an empty line
Blank == Marker("Blank")

\* "<id> /* <name> */ = {"  opening a PBXGroup
GroupDef(id, name) == Line("GroupDef", id, name, NoId, "")
\* "<id> /* <name> */ = {"  opening an XCBuildConfiguration
ConfigDef(id, name) == Line("ConfigDef", id, name, NoId, "")
\* "name = <name>;"
NameField(name) == Line("NameField", NoId, name, NoId, "")
\* "<key> = <value>;"  (name holds the key)
Setting(key) == Line("Setting", NoId, key, NoId, "")

\* f"\t\t{build_file_id} /* {file_name} in Sources */ = {{isa = PBXBuildFile;
\*    fileRef = {file_ref_id} /* {file_name} */; }};\n"
build_file_entry(build_file_id, file_name, file_ref_id) ==
    Line("BuildFile", build_file_id, file_name, file_ref_id, "")

\* f"\t\t{file_ref_id} /* {file_name} */ = {{isa = PBXFileReference; ...;
\*    path = {file_name}; sourceTree = \"<group>\"; }};\n"
file_ref_entry(file_ref_id, file_name) ==
    Line("FileRef", file_ref_id, file_name, NoId, file_name)

\* f"\t\t\t\t{build_file_id} /* {file_name} in Sources */,\n"
sources_entry(build_file_id, file_name) ==
    Line("PhaseEntry", build_file_id, file_name, NoId, "")

\* f"\t\t\t\t{file_ref_id} /* {file_name} */,\n"
group_entry(file_ref_id, file_name) ==
    Line("Child", file_ref_id, file_name, NoId, "")

(***************************************************************************)
(* Text matching.                                                          *)
(***************************************************************************)
\* the line's text contains "/* <name> */"
HasComment(l, name) ==
    /\ l.k \in {"BuildFile", "FileRef", "Child", "GroupDef", "ConfigDef"}
    /\ l.name = name

Idx(m, k) == {i \in 1..Len(m) : m[i].k = k}

Min(S) == CHOOSE x \in S : \A y \in S : x <= y

\* re.sub of "(A.*?B\n)" with DOTALL and no count: the ends of all the
\* non-overlapping leftmost lazy matches, As the lines holding A and Bs the
\* lines ending in B.
RECURSIVE LazySpans(_, _, _)
LazySpans(from, As, Bs) ==
    LET as == {i \in As : i >= from}
    IN  IF as = {} THEN {}
        ELSE LET bs == {j \in Bs : j > Min(as)}
             IN  IF bs = {} THEN {}
                 ELSE {Min(bs)} \cup LazySpans(Min(bs) + 1, As, Bs)

\* re.sub of "(A[\s\S]*?B)([\s\S]*?)(C)" with no count: for each of the
\* non-overlapping leftmost lazy matches, the line holding B and the line
\* holding C.
RECURSIVE LazySpans2(_, _, _, _)
LazySpans2(from, As, Bs, Cs) ==
    LET as == {i \in As : i >= from}
    IN  IF as = {} THEN {}
        ELSE LET bs == {j \in Bs : j > Min(as)}
             IN  IF bs = {} THEN {}
                 ELSE LET cs == {c \in Cs : c > Min(bs)}
                      IN  IF cs = {} THEN {}
                          ELSE {<<Min(bs), Min(cs)>>}
                                 \cup LazySpans2(Min(cs) + 1, As, Bs, Cs)

Max(S) == CHOOSE x \in S : \A y \in S : x >= y

\* the text with the lines `new` put after every line whose index is in at
RECURSIVE InsertAfter(_, _, _)
InsertAfter(m, at, new) ==
    IF at = {} THEN m
    ELSE LET a == Max(at)
         IN  InsertAfter(SubSeq(m, 1, a) \o new \o SubSeq(m, a + 1, Len(m)), at \ {a}, new)

\* the text with the lines `new` put before every line whose index is in at
InsertBefore(m, at, new) == InsertAfter(m, {a - 1 : a \in at}, new)

\* the text without the lines strictly between b and c, for <<b, c>> in spans
RemoveBetween(m, spans) ==
    LET kept == {i \in 1..Len(m) : \A sp \in spans : ~(sp[1] < i /\ i < sp[2])}
        RECURSIVE Lines(_)
        Lines(i) == IF i > Len(m) THEN <<>>
                    ELSE (IF i \in kept THEN <<m[i]>> ELSE <<>>) \o Lines(i + 1)
    IN  IF kept = 1..Len(m) THEN m ELSE Lines(1)

(***************************************************************************)
(* generate_xcode_id: uuid.uuid4().hex[:24].upper().  A uuid is a number   *)
(* of which hex[:24] keeps the leading digits and drops the rest; upper()  *)
(* changes the letters' case only.  uuid4 is random: any value may come.   *)
(***************************************************************************)
Uuid4 == 0..MaxUuid

generate_xcode_id(uuid) == uuid \div 2

\* the values generate_xcode_id() can return
XcodeIds == {generate_xcode_id(uuid) : uuid \in Uuid4}

(***************************************************************************)
(* The four substitutions of add_file_to_pbxproj and of the loop of        *)
(* add-create-library.py, on the text held in memory.                      *)
(***************************************************************************)
\* re.sub(r'(/\* Begin PBXBuildFile section \*/\n)', r'\1' + entry, content)
SubBuildFile(c, entry) == InsertAfter(c, Idx(c, "BeginBuildFile"), <<entry>>)

\* the substitution left out: no file reference is written
SubFileRef_Skipped(c, entry) == c

\* re.sub(r'(/\* Begin PBXFileReference section \*/\n)', r'\1' + entry, content)
SubFileRef(c, entry) == InsertAfter(c, Idx(c, "BeginFileRef"), <<entry>>)

\* re.sub(r'(/\* Begin PBXSourcesBuildPhase section \*/.*?files = \(\n)',
\*        r'\1' + entry, content, flags=re.DOTALL)
SubSources(c, entry) ==
    InsertAfter(c, LazySpans(1, Idx(c, "BeginSources"), Idx(c, "FilesOpen")), <<entry>>)

\* the entry put before the ");" of the child list instead of after its
\* "children = ("
SubGroup_Appended(c, group_name, entry) ==
    InsertBefore(c,
                 {Min({i \in Idx(c, "ListClose") : i > j}) :
                    j \in LazySpans(1, {i \in 1..Len(c) : HasComment(c[i], group_name)},
                                    Idx(c, "ChildrenOpen"))},
                 <<entry>>)

\* re.sub(rf'(/\* {group_name} \*/.*?children = \(\n)', r'\1' + entry, content,
\*        flags=re.DOTALL)
SubGroup(c, group_name, entry) ==
    InsertAfter(c,
                LazySpans(1, {i \in 1..Len(c) : HasComment(c[i], group_name)},
                          Idx(c, "ChildrenOpen")),
                <<entry>>)

\* the lines "<id> /* <name> */," that the pattern insert_after matches
SiblingLines(c, insert_after) ==
    {i \in 1..Len(c) : /\ c[i].k = "Child"
                       /\ c[i].id = insert_after[1]
                       /\ c[i].name = insert_after[2]}

\* re.sub(rf'({file_info["insert_after"]})', r'\1\n' + entry, content):
\* the entry follows the sibling, and the newline that followed the sibling
\* is left behind the entry as an empty line.
SubAfterSibling(c, insert_after, entry) ==
    InsertAfter(c, SiblingLines(c, insert_after), <<entry, Blank>>)

\* add_file_to_pbxproj, from the text read to the text written
add_file_to_pbxproj(c, file_name, group_name, file_ref_id, build_file_id) ==
    LET c1 == SubBuildFile(c, build_file_entry(build_file_id, file_name, file_ref_id))
        c2 == SubFileRef(c1, file_ref_entry(file_ref_id, file_name))
        c3 == SubSources(c2, sources_entry(build_file_id, file_name))
    IN  SubGroup(c3, group_name, group_entry(file_ref_id, file_name))

\* one iteration of "for file_info in files" of add-create-library.py
add_create_library(c, file_name, insert_after, file_ref_id, build_file_id) ==
    LET c1 == SubBuildFile(c, build_file_entry(build_file_id, file_name, file_ref_id))
        c2 == SubFileRef(c1, file_ref_entry(file_ref_id, file_name))
        c3 == SubSources(c2, sources_entry(build_file_id, file_name))
    IN  SubAfterSibling(c3, insert_after, group_entry(file_ref_id, file_name))

(***************************************************************************)
(* Project files the scripts are run on.  `registered` tells whether       *)
(* LibrariesListView.swift and LibrariesListViewModel.swift are in the     *)
(* project, as they are when add-create-library.py is run.                 *)
(***************************************************************************)
BuildFileSection ==
    <<BeginBuildFile, build_file_entry(201, "BookResultView.swift", BookResultViewId)>>

FileRefSection(registered) ==
    <<BeginFileRef>>
      \o (IF registered
          THEN <<file_ref_entry(LibrariesListViewModelId, "LibrariesListViewModel.swift"),
                 file_ref_entry(LibrariesListViewId, "LibrariesListView.swift")>>
          ELSE <<>>)
      \o <<file_ref_entry(AppSwiftId, "VirtualLibraryApp.swift"),
           file_ref_entry(AppProductId, "VirtualLibrary.app"),
           file_ref_entry(BookResultViewId, "BookResultView.swift"),
           file_ref_entry(ScanCoverViewModelId, "ScanCoverViewModel.swift"),
           file_ref_entry(LibraryId, "Library.swift")>>

AppGroup ==
    <<GroupDef(AppGroupId, "VirtualLibraryApp"), ChildrenOpen,
      group_entry(AppSwiftId, "VirtualLibraryApp.swift"),
      group_entry(ViewsGroupId, "Views"),
      group_entry(ViewModelsGroupId, "ViewModels"),
      group_entry(ServicesGroupId, "Services"),
      ListClose>>

ProductsGroup ==
    <<GroupDef(ProductsGroupId, "Products"), ChildrenOpen,
      group_entry(AppProductId, "VirtualLibrary.app"),
      ListClose>>

ViewsGroup(registered) ==
    <<GroupDef(ViewsGroupId, "Views"), ChildrenOpen,
      group_entry(BookResultViewId, "BookResultView.swift")>>
      \o (IF registered
          THEN <<group_entry(LibrariesListViewId, "LibrariesListView.swift")>>
          ELSE <<>>)
      \o <<ListClose>>

ViewModelsGroup(registered) ==
    <<GroupDef(ViewModelsGroupId, "ViewModels"), ChildrenOpen,
      group_entry(ScanCoverViewModelId, "ScanCoverViewModel.swift")>>
      \o (IF registered
          THEN <<group_entry(LibrariesListViewModelId, "LibrariesListViewModel.swift")>>
          ELSE <<>>)
      \o <<ListClose>>

ServicesGroup ==
    <<GroupDef(ServicesGroupId, "Services"), ChildrenOpen,
      group_entry(LibraryId, "Library.swift"),
      ListClose>>

GroupSection(registered) ==
    AppGroup \o ProductsGroup \o ViewsGroup(registered) \o ViewModelsGroup(registered)
      \o ServicesGroup

SourcesSection ==
    <<BeginSources, FilesOpen, sources_entry(201, "BookResultView.swift"), ListClose>>

Manifest(registered) ==
    BuildFileSection \o FileRefSection(registered) \o GroupSection(registered)
      \o SourcesSection

\* the project before fix-xcode-project.py has run on it
FirstManifest == Manifest(FALSE)

\* the project add-create-library.py is written for
FullManifest == Manifest(TRUE)

RegManifests == {FirstManifest, FullManifest}

\* the project file, and the same with one part missing
AnchorManifests ==
    { FullManifest,
      FileRefSection(TRUE) \o GroupSection(TRUE) \o SourcesSection,
      BuildFileSection \o GroupSection(TRUE) \o SourcesSection,
      BuildFileSection \o FileRefSection(TRUE) \o SourcesSection,
      BuildFileSection \o FileRefSection(TRUE) \o GroupSection(TRUE) }

(***************************************************************************)
(* Inputs.                                                                 *)
(***************************************************************************)
\* main's files list: (file_path, file_name, group); the file_path is not
\* used by add_file_to_pbxproj
FxpFiles ==
    << [name |-> "AuthenticationService.swift", group |-> "Services"],
       [name |-> "LoginView.swift", group |-> "Views"],
       [name |-> "LibrariesListView.swift", group |-> "Views"],
       [name |-> "LibrariesListViewModel.swift", group |-> "ViewModels"] >>

\* the files list of add-create-library.py; insert_after is a pattern
\* "<id> /\* <name> \*/,"
AclFiles ==
    << [name |-> "CreateLibraryView.swift", group |-> "Views",
        insert_after |-> <<LibrariesListViewId, "LibrariesListView.swift">>],
       [name |-> "CreateLibraryViewModel.swift", group |-> "ViewModels",
        insert_after |-> <<LibrariesListViewModelId, "LibrariesListViewModel.swift">>] >>

Range(s) == {s[i] : i \in 1..Len(s)}

SeqsUpTo(S, n) == UNION {[1..k -> S] : k \in 1..n}

\* a is b with some elements left out
IsSubseq(a, b) ==
    LET RECURSIVE From(_, _)
        From(i, j) ==
            IF i > Len(a) THEN TRUE
            ELSE IF j > Len(b) THEN FALSE
            ELSE IF a[i] = b[j] THEN From(i + 1, j + 1)
            ELSE From(i, j + 1)
    IN  From(1, 1)

\* the files lists a run is explored with: at most n entries of the
\* script's list, in the order of the script's list
SubLists(files, n) == {s \in SeqsUpTo(Range(files), n) : IsSubseq(s, files)}

(***************************************************************************)
(* A run of a script.  disk is project.pbxproj; content the text the run   *)
(* holds in memory; todo the entries of the files list the loop has still  *)
(* to visit; original the file as the run found it; report what the run    *)
(* printed for each file it added; failed whether an exception was raised. *)
(***************************************************************************)
NoSibling == <<NoId, "">>

\* what a run prints for a file: its name and the two identifiers, kept with
\* the entry of the files list they were printed for
Reported(script, file_name, group, insert_after, file_ref_id, build_file_id) ==
    [script |-> script, name |-> file_name, group |-> group, insert_after |-> insert_after,
     fileRef |-> file_ref_id, buildFile |-> build_file_id]

\* "with open(pbxproj_path, 'r') as f: content = f.read()" raises ("unread"),
\* or "with open(pbxproj_path, 'w') as f: f.write(content)" raises at open,
\* the file left as it was ("refused"), or raises after open has emptied the
\* file and some of the text, not all, has reached it ("cut"), or nothing
\* raises ("written")
WriteOutcomes == {"written", "refused", "cut"}

RunOutcomes == {"unread"} \cup WriteOutcomes

\* the beginnings of the text c a write that raises can leave in the file
Cuts(c) == {SubSeq(c, 1, n) : n \in 0..Min({MaxKept, Len(c) - 1})}

\* the files that can be there after a run that found the text d and was to
\* write the text c
Stored(d, c, outcome) ==
    IF outcome = "written" THEN {c}
    ELSE IF outcome = "cut" THEN Cuts(c)
    ELSE {d}

InitOn(manifests) ==
    /\ disk \in manifests
    /\ content = <<>>
    /\ pc = "idle"
    /\ todo = <<>>
    /\ original = disk
    /\ reads = 0
    /\ writes = 0
    /\ report = <<>>
    /\ failed = FALSE

InitReg == InitOn(RegManifests)

InitAnchors == InitOn(AnchorManifests)

\* fix-xcode-project.py: main() starts on its files list, of which a run
\* goes through at most MaxRegs entries
FxpStart ==
    /\ pc = "idle"
    /\ \E files \in SubLists(FxpFiles, MaxRegs) : todo' = files
    /\ pc' = "fxp"
    /\ UNCHANGED <<disk, content, original, reads, writes, report, failed>>

\* one iteration of main's loop: the call of add_file_to_pbxproj, which reads
\* the file, edits the text (its own variable, gone when it returns) and
\* writes the file; an exception it raises is caught by main, which goes on
\* with the next file; after the last file main returns
FxpAddFile ==
    /\ pc = "fxp"
    /\ todo # <<>>
    /\ \/ \E file_ref_id \in XcodeIds, build_file_id \in XcodeIds :
            LET f == Head(todo)
                c == add_file_to_pbxproj(disk, f.name, f.group, file_ref_id, build_file_id)
            IN  \/ /\ disk' \in Stored(disk, c, "written")
                   /\ reads' = reads + 1
                   /\ writes' = writes + 1
                   /\ report' = Append(report,
                                       Reported("fxp", f.name, f.group, NoSibling,
                                                file_ref_id, build_file_id))
                   /\ UNCHANGED failed
                \/ /\ disk' \in Stored(disk, c, "cut")
                   /\ reads' = reads + 1
                   /\ failed' = TRUE
                   /\ UNCHANGED <<writes, report>>
       \/ \E outcome \in {"unread", "refused"} :
            /\ disk' \in Stored(disk, disk, outcome)
            /\ reads' = IF outcome = "unread" THEN reads ELSE reads + 1
            /\ failed' = TRUE
            /\ UNCHANGED <<writes, report>>
    /\ todo' = Tail(todo)
    /\ pc' = IF Tail(todo) = <<>> THEN "done" ELSE "fxp"
    /\ UNCHANGED <<content, original>>

\* add-create-library.py starts: the file is read, or the read raises and the
\* script ends; the run goes through at most MaxRegs entries of the files list
AclStart ==
    /\ pc = "idle"
    /\ \E readable \in BOOLEAN, files \in SubLists(AclFiles, MaxRegs) :
         IF readable
         THEN /\ content' = disk
              /\ todo' = files
              /\ reads' = 1
              /\ pc' = "acl"
              /\ UNCHANGED failed
         ELSE /\ failed' = TRUE
              /\ pc' = "done"
              /\ UNCHANGED <<content, todo, reads>>
    /\ UNCHANGED <<disk, original, writes, report>>

\* one iteration of "for file_info in files"
AclRegister ==
    /\ pc = "acl"
    /\ todo # <<>>
    /\ \E file_ref_id \in XcodeIds, build_file_id \in XcodeIds :
         LET f == Head(todo)
         IN  /\ content' = add_create_library(content, f.name, f.insert_after,
                                              file_ref_id, build_file_id)
             /\ report' = Append(report,
                                 Reported("acl", f.name, f.group, f.insert_after,
                                          file_ref_id, build_file_id))
    /\ todo' = Tail(todo)
    /\ UNCHANGED <<disk, pc, original, reads, writes, failed>>

\* the loop is over: the file is written
AclWrite ==
    /\ pc = "acl"
    /\ todo = <<>>
    /\ \E outcome \in WriteOutcomes :
         /\ disk' \in Stored(disk, content, outcome)
         /\ writes' = IF outcome = "written" THEN writes + 1 ELSE writes
         /\ failed' = (outcome # "written")
    /\ pc' = "done"
    /\ UNCHANGED <<content, todo, original, reads, report>>

NextReg == FxpStart \/ FxpAddFile \/ AclStart \/ AclRegister \/ AclWrite

SpecReg == InitReg /\ [][NextReg]_vars

SpecAnchors == InitAnchors /\ [][NextReg]_vars

(***************************************************************************)
(* add-entitlements.py.                                                    *)
(***************************************************************************)
\* the lines "<id> /* <name> */ = {": the definition of a group or of a build
\* configuration, and the one-line record "<id> /* <name> */ = {isa =
\* PBXFileReference; ...};" of a file
DefLines(c, id, name) ==
    {i \in 1..Len(c) : /\ c[i].k \in {"GroupDef", "ConfigDef", "FileRef"}
                       /\ c[i].id = id
                       /\ c[i].name = name}

\* the lines "<id> /* <name> */,"
RefLines(c, id, name) == SiblingLines(c, <<id, name>>)

\* the matches of r'(<gid> /\* <gname> \*/ = \{[\s\S]*?children = \([\s\S]*?)
\*                  (<id> /\* <name> \*/,)'
GroupSiblingSpans(c, gid, gname, id, name) ==
    LazySpans2(1, DefLines(c, gid, gname), Idx(c, "ChildrenOpen"), RefLines(c, id, name))

\* f"\t\t{file_ref_id} /* VirtualLibrary.entitlements */ = {{isa =
\*    PBXFileReference; ...; path = VirtualLibrary.entitlements; ...}};\n"
entitlements_file_ref_entry(file_ref_id) ==
    Line("FileRef", file_ref_id, "VirtualLibrary.entitlements", NoId,
         "VirtualLibrary.entitlements")

\* re.sub(<VirtualLibraryApp group ... VirtualLibraryApp.swift>,
\*        r'\1' + group_entry + r'\2', content): the entry goes before the sibling
SubAppGroup(c, entry) ==
    InsertBefore(c,
                 {s[2] : s \in GroupSiblingSpans(c, AppGroupId, "VirtualLibraryApp",
                                                 AppSwiftId, "VirtualLibraryApp.swift")},
                 <<entry>>)

\* the ends of the matches of r'(name = <config>;[\s\S]*?buildSettings = \{)'
SettingAnchors(c, config) ==
    LazySpans(1, {i \in Idx(c, "NameField") : c[i].name = config},
              Idx(c, "BuildSettingsOpen"))

\* re.sub(r'(name = <config>;[\s\S]*?buildSettings = \{)',
\*        r'\1\n\t\t\t\tCODE_SIGN_ENTITLEMENTS = ...;', content, count=1)
SubBuildSetting(c, config) ==
    IF SettingAnchors(c, config) = {} THEN c
    ELSE InsertAfter(c, {Min(SettingAnchors(c, config))},
                     <<Setting("CODE_SIGN_ENTITLEMENTS")>>)

\* the script, from the text read to the text written
add_entitlements(c, file_ref_id) ==
    LET c1 == SubFileRef(c, entitlements_file_ref_entry(file_ref_id))
        c2 == SubAppGroup(c1, group_entry(file_ref_id, "VirtualLibrary.entitlements"))
        c3 == SubBuildSetting(c2, "Debug")
    IN  SubBuildSetting(c3, "Release")

\* the script: the file is read, the text edited and the file written
RunAddEntitlements ==
    /\ pc = "idle"
    /\ \E outcome \in RunOutcomes, file_ref_id \in XcodeIds :
         /\ content' = IF outcome = "unread" THEN content
                       ELSE add_entitlements(disk, file_ref_id)
         /\ disk' \in Stored(disk, content', outcome)
         /\ reads' = IF outcome = "unread" THEN reads ELSE 1
         /\ writes' = IF outcome = "written" THEN 1 ELSE writes
         /\ failed' = (outcome # "written")
         /\ report' = IF outcome = "written"
                      THEN <<Reported("ent", "VirtualLibrary.entitlements",
                                      "VirtualLibraryApp",
                                      <<AppSwiftId, "VirtualLibraryApp.swift">>,
                                      file_ref_id, NoId)>>
                      ELSE report
    /\ pc' = "done"
    /\ UNCHANGED <<todo, original>>

(***************************************************************************)
(* fix-groups.py.                                                          *)
(***************************************************************************)
\* if re.search(products_pattern): re.sub(products_pattern, r'\1\n\t\t\t\t\3'):
\* what stands between "children = (" and the VirtualLibrary.app child goes
FixProducts(c) ==
    RemoveBetween(c, GroupSiblingSpans(c, ProductsGroupId, "Products",
                                          AppProductId, "VirtualLibrary.app"))

\* re.sub(views_pattern, r'\1\2\n\t\t\t\tD022... /* LoginView.swift */,
\*                             \n\t\t\t\t3DAD... /* LibrariesListView.swift */,')
FixViews(c) ==
    InsertAfter(c,
                {s[2] : s \in GroupSiblingSpans(c, ViewsGroupId, "Views",
                                                BookResultViewId, "BookResultView.swift")},
                <<group_entry(LoginViewId, "LoginView.swift"),
                  group_entry(LibrariesListViewId, "LibrariesListView.swift")>>)

\* re.sub(services_pattern, r'\1\2\n\t\t\t\t8B09... /* AuthenticationService.swift */,')
FixServices(c) ==
    InsertAfter(c,
                {s[2] : s \in GroupSiblingSpans(c, ServicesGroupId, "Services",
                                                LibraryId, "Library.swift")},
                <<group_entry(AuthenticationServiceId, "AuthenticationService.swift")>>)

\* re.sub(viewmodels_pattern, r'\1\2\n\t\t\t\t4BBA... /* LibrariesListViewModel.swift */,')
FixViewModels(c) ==
    InsertAfter(c,
                {s[2] : s \in GroupSiblingSpans(c, ViewModelsGroupId, "ViewModels",
                                                ScanCoverViewModelId,
                                                "ScanCoverViewModel.swift")},
                <<group_entry(LibrariesListViewModelId, "LibrariesListViewModel.swift")>>)

fix_groups(c) == FixViewModels(FixServices(FixViews(FixProducts(c))))

\* the script: the file is read, the text edited and the file written
RunFixGroups ==
    /\ pc = "idle"
    /\ \E outcome \in RunOutcomes :
         /\ content' = IF outcome = "unread" THEN content ELSE fix_groups(disk)
         /\ disk' \in Stored(disk, content', outcome)
         /\ reads' = IF outcome = "unread" THEN reads ELSE 1
         /\ writes' = IF outcome = "written" THEN 1 ELSE writes
         /\ failed' = (outcome # "written")
    /\ pc' = "done"
    /\ UNCHANGED <<todo, original, report>>

(***************************************************************************)
(* Project files with their build configurations.                          *)
(***************************************************************************)
\* an XCBuildConfiguration; Xcode writes buildSettings before name
ConfigBlock(id, name, nameFirst, hasKey) ==
    <<ConfigDef(id, name)>>
      \o (IF nameFirst THEN <<NameField(name)>> ELSE <<>>)
      \o <<BuildSettingsOpen>>
      \o (IF hasKey THEN <<Setting("CODE_SIGN_ENTITLEMENTS")>> ELSE <<>>)
      \o <<Setting("SWIFT_VERSION")>>
      \o (IF nameFirst THEN <<>> ELSE <<NameField(name)>>)

\* the configurations of the project, and those of the target when perTarget
ConfigSection(nameFirst, hasKey, perTarget) ==
    ConfigBlock(301, "Debug", nameFirst, hasKey)
      \o ConfigBlock(302, "Release", nameFirst, hasKey)
      \o (IF perTarget
          THEN ConfigBlock(303, "Debug", nameFirst, hasKey)
                 \o ConfigBlock(304, "Release", nameFirst, hasKey)
          ELSE <<>>)

AllManifests ==
    { FullManifest \o ConfigSection(nameFirst, hasKey, perTarget) :
        nameFirst \in BOOLEAN, hasKey \in BOOLEAN, perTarget \in BOOLEAN }

InitAll == InitOn(AllManifests)

NextAll == NextReg \/ RunAddEntitlements \/ RunFixGroups

SpecAll == InitAll /\ [][NextAll]_vars

\* the registrations and the regrouping of fix-groups.py
NextGroups == NextReg \/ RunFixGroups

SpecGroups == InitReg /\ [][NextGroups]_vars

(***************************************************************************)
(* Reading a project file: the records it holds.                           *)
(***************************************************************************)
Count(m, k) == Cardinality(Idx(m, k))

\* every fileRef, build-phase entry and group child names a record of the file
Integrity(m) ==
    LET fileRecords == {m[j].id : j \in Idx(m, "FileRef")}
        buildFileRecords == {m[j].id : j \in Idx(m, "BuildFile")}
        groups == {m[j].id : j \in Idx(m, "GroupDef")}
    IN  /\ \A i \in Idx(m, "BuildFile") : m[i].ref \in fileRecords
        /\ \A i \in Idx(m, "PhaseEntry") : m[i].id \in buildFileRecords
        /\ \A i \in Idx(m, "Child") : m[i].id \in fileRecords \cup groups

\* the number of places each anchor of a registration matches in the text m
SourcesAnchors(m) == LazySpans(1, Idx(m, "BeginSources"), Idx(m, "FilesOpen"))

GroupAnchors(m, r) ==
    IF r.script = "fxp"
    THEN LazySpans(1, {i \in 1..Len(m) : HasComment(m[i], r.group)}, Idx(m, "ChildrenOpen"))
    ELSE SiblingLines(m, r.insert_after)

AnchorsUnique(m, r) ==
    /\ Count(m, "BeginBuildFile") = 1
    /\ Count(m, "BeginFileRef") = 1
    /\ Cardinality(SourcesAnchors(m)) = 1
    /\ Cardinality(GroupAnchors(m, r)) = 1

\* the build-file section, the file-reference section and the files list of
\* the Sources phase are there, and the records resolve
WellFormed(m) ==
    /\ Count(m, "BeginBuildFile") = 1
    /\ Count(m, "BeginFileRef") = 1
    /\ Cardinality(SourcesAnchors(m)) = 1
    /\ Integrity(m)

\* the name of the group whose child list holds line j
OwnerGroup(m, j) ==
    LET defs == {i \in Idx(m, "GroupDef") : i < j}
    IN  IF defs = {} THEN "" ELSE m[Max(defs)].name

\* the group with this name is defined in the file
HasGroup(m, name) == \E i \in Idx(m, "GroupDef") : m[i].name = name

\* the lines of m that are the group child written for the report entry r
ChildLinesOf(m, r) == {j \in 1..Len(m) : m[j] = group_entry(r.fileRef, r.name)}

IdsIn(m) == ({m[i].id : i \in 1..Len(m)} \cup {m[i].ref : i \in 1..Len(m)}) \ {NoId}

(***************************************************************************)
(* Claims about the registration scripts.                                  *)
(***************************************************************************)

\* C1: on a well-formed project file, after any sequence of registrations
\* every BuildFileRecord's fileRef names an existing FileRecord, every
\* BuildPhaseEntry names an existing BuildFileRecord and every GroupChildRef
\* names an existing record of the file, in the file of a run in which no
\* read or write raised and in the text add-create-library.py holds.
C1_ReferentialIntegrity ==
    WellFormed(original) => /\ ~failed => Integrity(disk)
                            /\ pc = "acl" => Integrity(content)

\* a run on a well-formed file has registered a new file in the four places
C1_Witness ==
    /\ pc = "done"
    /\ ~failed
    /\ WellFormed(original)
    /\ \E r \in Range(report) :
         /\ \A i \in Idx(original, "FileRef") : original[i].path # r.name
         /\ \E i \in Idx(disk, "FileRef") : disk[i].id = r.fileRef /\ disk[i].path = r.name
         /\ \E i \in Idx(disk, "BuildFile") : disk[i].id = r.buildFile /\ disk[i].ref = r.fileRef
         /\ \E i \in Idx(disk, "PhaseEntry") : disk[i].id = r.buildFile /\ disk[i].name = r.name
         /\ ChildLinesOf(disk, r) # {}
         /\ ChildLinesOf(original, r) = {}

\* C2: a registration of a path that already has a FileRecord is rejected and
\* changes nothing, so no two FileRecords of the file share a path.
C2_NoDuplicatePath ==
    \A i \in Idx(disk, "FileRef"), j \in Idx(disk, "FileRef") :
        disk[i].path = disk[j].path => i = j

\* C3: when an anchor of some registration of a run matches no place or more
\* than one place, the file is left as it was before the run.
C3_AnchorFailureKeepsInput ==
    (\E r \in Range(report) : ~AnchorsUnique(original, r)) => disk = original

\* C4: a run that registers one file in group G of a well-formed file that
\* defines G, and in which nothing raised, adds exactly one FileRecord, one
\* BuildFileRecord, one BuildPhaseEntry and one GroupChildRef, and the
\* GroupChildRef is in G.
C4_OneRecordPerSection ==
    (/\ pc = "done"
     /\ ~failed
     /\ Len(report) = 1
     /\ WellFormed(original)
     /\ HasGroup(original, report[1].group)
     /\ report[1].script = "acl" => SiblingLines(original, report[1].insert_after) # {})
    => /\ Count(disk, "FileRef") = Count(original, "FileRef") + 1
       /\ Count(disk, "BuildFile") = Count(original, "BuildFile") + 1
       /\ Count(disk, "PhaseEntry") = Count(original, "PhaseEntry") + 1
       /\ Count(disk, "Child") = Count(original, "Child") + 1
       /\ \A j \in ChildLinesOf(disk, report[1]) : OwnerGroup(disk, j) = report[1].group

\* C6: every identifier a run allocates differs from the identifiers of the
\* file the run started from and from the other identifiers the run allocated.
C6_FreshIdentifiers ==
    \A k \in 1..Len(report) :
        /\ report[k].fileRef # report[k].buildFile
        /\ {report[k].fileRef, report[k].buildFile} \cap IdsIn(original) = {}
        /\ \A l \in 1..Len(report) :
             l # k => {report[k].fileRef, report[k].buildFile}
                        \cap {report[l].fileRef, report[l].buildFile} = {}

\* C8: a run reads the file at most once and writes it at most once, and a
\* run one of whose registrations failed has not written the file.
C8_OneWriteAfterSuccess ==
    /\ reads <= 1
    /\ writes <= 1
    /\ failed => writes = 0

(***************************************************************************)
(* Where the group child of a registration stands.                         *)
(***************************************************************************)
Last(q) == q[Len(q)]

\* the first ");" after line j
ListEnd(m, j) == Min({i \in Idx(m, "ListClose") : i > j})

\* the children of the n-th group of the file, in order
ChildrenOf(m, n) ==
    LET defs == Idx(m, "GroupDef")
        d == CHOOSE i \in defs : Cardinality({x \in defs : x <= i}) = n
        next == {x \in defs : x > d}
        stop == IF next = {} THEN Len(m) + 1 ELSE Min(next)
    IN  SelectSeq(SubSeq(m, d + 1, stop - 1), LAMBDA l : l.k = "Child")

\* the line "children = (" of the group defined at line d
ListOpen(m, d) == Min({i \in Idx(m, "ChildrenOpen") : i > d})

\* the definitions of the group named group that have a child list
GroupLines(m, group) ==
    {d \in Idx(m, "GroupDef") :
        /\ m[d].name = group
        /\ \E i \in Idx(m, "ChildrenOpen") : i > d /\ \E e \in Idx(m, "ListClose") : e > i}

\* the lines of the sibling in the child list of the group defined at line d
SiblingsIn(m, d, sibling) ==
    {j \in SiblingLines(m, sibling) : ListOpen(m, d) < j /\ j < ListEnd(m, ListOpen(m, d))}

\* the entries stand immediately after the sibling, inside the child list of
\* the group
AfterSibling(m, group, sibling, entries) ==
    \A d \in GroupLines(m, group) :
        SiblingsIn(m, d, sibling) # {}
          => LET j == Min(SiblingsIn(m, d, sibling))
             IN  /\ j + Len(entries) < ListEnd(m, ListOpen(m, d))
                 /\ \A k \in 1..Len(entries) : m[j + k] = entries[k]

\* the entry is the first child of the child list of the group
AtHead(m, group, entry) ==
    \A d \in GroupLines(m, group) : m[ListOpen(m, d) + 1] = entry

\* the entry is the last child of the child list of the group
AtEnd(m, group, entry) ==
    \A d \in GroupLines(m, group) : m[ListEnd(m, ListOpen(m, d)) - 1] = entry

\* the children the group had are still there, in their order
GroupOrderKept(old, new, group) ==
    /\ Count(old, "GroupDef") = Count(new, "GroupDef")
    /\ \A n \in 1..Count(old, "GroupDef") :
         LET defs == Idx(old, "GroupDef")
             d == CHOOSE i \in defs : Cardinality({x \in defs : x <= i}) = n
         IN  old[d].name = group => IsSubseq(ChildrenOf(old, n), ChildrenOf(new, n))

\* the insertions of fix-groups.py after a sibling: the group, the sibling and
\* the children put after it
FixInsertions ==
    { [group |-> "Views", insert_after |-> <<BookResultViewId, "BookResultView.swift">>,
       entries |-> <<group_entry(LoginViewId, "LoginView.swift"),
                     group_entry(LibrariesListViewId, "LibrariesListView.swift")>>],
      [group |-> "Services", insert_after |-> <<LibraryId, "Library.swift">>,
       entries |-> <<group_entry(AuthenticationServiceId, "AuthenticationService.swift")>>],
      [group |-> "ViewModels",
       insert_after |-> <<ScanCoverViewModelId, "ScanCoverViewModel.swift">>,
       entries |-> <<group_entry(LibrariesListViewModelId, "LibrariesListViewModel.swift")>>] }

\* the step in which add_file_to_pbxproj writes the file of a registration
FxpWrote == pc = "fxp" /\ writes' = writes + 1

\* the step in which add-create-library.py registers a file in its text
AclRegistered == pc = "acl" /\ Len(report') = Len(report) + 1

\* the step in which fix-groups.py writes the file
FixGroupsWrote == pc = "idle" /\ pc' = "done" /\ writes' = 1 /\ report' = <<>>

\* where the steps put a new child: after the sibling when there is one, and
\* first or last in the child list of the target group when there is none
Placed(first) ==
    /\ FxpWrote =>
         LET r == Last(report')
             entry == group_entry(r.fileRef, r.name)
         IN  IF first THEN AtHead(disk', r.group, entry) ELSE AtEnd(disk', r.group, entry)
    /\ AclRegistered =>
         LET r == Last(report')
         IN  /\ AfterSibling(content', r.group, r.insert_after,
                             <<group_entry(r.fileRef, r.name)>>)
             /\ GroupOrderKept(content, content', r.group)
    /\ FixGroupsWrote =>
         \A t \in FixInsertions :
             /\ AfterSibling(disk', t.group, t.insert_after, t.entries)
             /\ GroupOrderKept(FixProducts(disk), disk', t.group)

\* C10 (as amended): when a sibling is specified, the new GroupChildRef is
\* placed immediately after that sibling inside the target group's child list
\* and all existing children of the group keep their relative order; when no
\* sibling is specified, the new GroupChildRef is inserted as the first child
\* of the target group's child list.
C10_AfterSiblingElseFirst == [][Placed(TRUE)]_vars

\* a file registered with no sibling stands first in the child list of its
\* target group, before the children that list had
C10_Witness ==
    /\ report # <<>>
    /\ Last(report).script = "fxp"
    /\ pc = "done"
    /\ ~failed
    /\ \E d \in GroupLines(disk, Last(report).group) :
         /\ disk[ListOpen(disk, d) + 1] = group_entry(Last(report).fileRef, Last(report).name)
         /\ disk[ListOpen(disk, d) + 2].k = "Child"
         /\ disk[ListOpen(disk, d) + 2] \in Range(original)

\* C10 (as claimed): when a sibling is specified, the new GroupChildRef is
\* placed immediately after that sibling inside the target group's child list
\* and all existing children of the group keep their relative order; when no
\* sibling is specified, the new GroupChildRef is appended to the target
\* group's child list.
C10_AfterSiblingElseAppended == [][Placed(FALSE)]_vars

(***************************************************************************)
(* Claims about the build settings and the anchors.                        *)
(***************************************************************************)
KeyLines(m) == {i \in Idx(m, "Setting") : m[i].name = "CODE_SIGN_ENTITLEMENTS"}

\* the lines of the configuration that starts at line b
BlockLines(m, b) ==
    {j \in b..Len(m) : \A x \in Idx(m, "ConfigDef") : x <= b \/ x > j}

\* the name field of the configuration that starts at line b
BlockName(m, b) ==
    LET ns == BlockLines(m, b) \cap Idx(m, "NameField")
    IN  IF ns = {} THEN "" ELSE m[Min(ns)].name

\* C5: the edit of a configuration that already holds CODE_SIGN_ENTITLEMENTS
\* inserts no second one: no configuration holds the key twice.
C5_KeyAtMostOnce ==
    \A b \in Idx(disk, "ConfigDef") :
        Cardinality(KeyLines(disk) \cap BlockLines(disk, b)) <= 1

\* C7: when the group anchor of a registration, or the anchor of a build
\* setting, matches more than one place, nothing is inserted at any of them.
C7_AmbiguousAnchorNoInsertion ==
    \A r \in Range(report) :
        /\ (r.script \in {"fxp", "acl"} /\ Cardinality(GroupAnchors(original, r)) > 1)
             => Count(disk, "Child") = Count(original, "Child")
        /\ (r.script = "ent" /\ \E config \in {"Debug", "Release"} :
                                   Cardinality(SettingAnchors(original, config)) > 1)
             => Cardinality(KeyLines(disk)) = Cardinality(KeyLines(original))

\* C9: after add-entitlements.py has run on a file without the key that has
\* one Debug and one Release configuration, each of the two holds the key as
\* the first line of its buildSettings, and holds it once.
C9_KeyInNamedBlock ==
    (/\ Len(report) = 1
     /\ report[1].script = "ent"
     /\ KeyLines(original) = {}
     /\ \A config \in {"Debug", "Release"} :
          Cardinality({i \in Idx(original, "NameField") : original[i].name = config}) = 1)
    => \A b \in Idx(disk, "ConfigDef") :
         BlockName(disk, b) \in {"Debug", "Release"}
           => /\ Cardinality(KeyLines(disk) \cap BlockLines(disk, b)) = 1
              /\ \A o \in BlockLines(disk, b) \cap Idx(disk, "BuildSettingsOpen") :
                   o + 1 \in KeyLines(disk)

====
